---- MODULE Spec2Model ----
(***************************************************************************)
(* The live conversation session of src/App.tsx: the session lifecycle     *)
(* (startSession, stopSession, cleanupSessionResources and the onopen,     *)
(* onmessage, onerror, onclose callbacks), the microphone capture path and *)
(* the playback queue that schedules the decoded audio chunks; and the     *)
(* listening exercise (generateListeningExercise,                          *)
(* handleToggleListeningAudio), which shares the output audio context.     *)
(*                                                                         *)
(* JavaScript runs one task at a time.  Every action below is one task     *)
(* (a click, an effect, a transport event, a promise settled by the        *)
(* outside world).  The continuation of an await on a promise that is      *)
(* already settled, and the reactions of a promise that settles during a   *)
(* task, are microtasks: they are queued in micro and run, in order,       *)
(* before any other task.                                                  *)
(*                                                                         *)
(* Every handler is written as an operator from a state record to a state  *)
(* record, so that a handler calling another handler is a composition.     *)
(* Times are integers: one unit is half a second of audio.                 *)
(***************************************************************************)
EXTENDS Integers, Sequences, FiniteSets, TLC

\* ----------------------------------------------------------------- bounds
MaxStarts == 2      \* startSession calls in one behaviour (SpecLife; ids
                    \* 1..MaxStarts)
AppStarts == 1      \* startSession calls in one behaviour (Spec)
MaxChunks == 1      \* audio chunks received in one behaviour (Spec, SpecLife)
MaxClock  == 1      \* last value of an output clock (Spec, SpecLife)
MaxFrames == 1      \* microphone blocks captured in one behaviour
MaxAwait  == 2      \* continuations waiting on one session promise
PlayChunks == 2     \* audio chunks received in one behaviour (SpecPlay)
PlayClock  == 1     \* last value of the output clock (SpecPlay)
PlayStarts == 1     \* startSession calls in one behaviour (SpecPlay)
OrderChunks == 4    \* audio chunks received in one behaviour (SpecOrder)
TurnFrags == 3      \* transcript fragments received in one behaviour (SpecTurn)
CodecLen == 1       \* samples in a frame that is not silent (SpecCodec)
ComboFrags == 3     \* transcript fragments received in one behaviour (SpecCombo)
ComboChunks == 2    \* audio chunks received in one behaviour (SpecCombo)
SplitLen == 5       \* pieces a finalized output is made of (SpecSplit)
LeakFrags == 2      \* transcript fragments received in one behaviour (SpecLeak)
MaxGenerates == 2   \* generateListeningExercise calls in one behaviour
MaxPlays == 2       \* listening sources started in one behaviour

Ids == 1..MaxStarts

\* The output contexts one behaviour can make: getOutputAudioContext makes
\* one when the ref holds none or a closed one, and only the unmount closes.
Ctxs == 1..2

VARIABLES
  apiKey,             \* process.env.API_KEY is configured
  mode,               \* AppMode
  status,             \* SessionStatus
  unmounted,          \* the App component has been unmounted
  nStarts,            \* startSession calls made so far; call i owns stream i,
                      \* input context i, playback queue i and session i
  startPc,            \* where startSession call i is
  sessionPromiseRef,  \* 0 is null, i is the promise of session i
  streamRef,          \* 0 is null, i is microphone stream i
  audioProcessorRef,  \* 0 is null, i is the script processor of session i
  inputCtxRef,        \* audioContextsRef.current.input: 0 absent, i context i
  outputCtx,          \* audioContextsRef.current.output: none, open, closed
  streamStops,        \* times the tracks of stream i were stopped
  inputCtxCloses,     \* times input context i was closed
  processor,          \* script processor i: none, connected, disconnected
  session,            \* session i: none, connecting, open, closing, errored, closed
  promise,            \* promise of session i: none, pending, resolved, rejected
  opened,             \* sessions whose onopen callback has fired
  awaiting,           \* continuations waiting on the promise of session i
  micro,              \* the microtask queue
  nFrames,            \* microphone blocks captured so far
  sendCalls,          \* sendRealtimeInput calls: <<session, its state then,
                      \* 1 when it was not open as the block was captured>>
  nOutputCtx,         \* output contexts made so far; the ref holds the last
  clock,              \* currentTime of the output context the ref holds
  ctxTimes,           \* currentTime of output context c, once it is closed
                      \* and the ref holds another
  startCtx,           \* the output context startSession call i got (0: none)
  memoReplying,       \* isTutorReplying as the memoized startSession sees it
  startReplying,      \* isTutorReplying as startSession call i sees it
  generatePc,         \* where generateListeningExercise is: idle, or the
                      \* await it is at (text, audio, decode); isGenerating
                      \* is true from its call to its finally block
  nGenerates,         \* generateListeningExercise calls made so far
  exercise,           \* an exercise is set (not null)
  listeningAudioBuffer,    \* the audio of the exercise is set (not null)
  isListeningAudioPlaying,
  listeningSource,    \* the source listeningAudioSourceRef holds: none,
                      \* playing, stopped (its ended event still to come),
                      \* and the output context it was made on
  unheldSources,      \* on output context c, the listening sources the
                      \* ref holds no more whose ended event is still to come
  nPlays,             \* listening sources started so far
  curQueue,           \* the object audioPlaybackQueueRef.current holds
  qNst,               \* nextStartTime of playback queue object q
  qSources,           \* sources of playback queue object q
  chunks,             \* the audio chunks received, in arrival order
  resetSeen,          \* a queue was reset or replaced after a chunk arrived
  justCancelled,      \* the interruption handling has run on the current
                      \* queue and no source has been started since
  currentInput,       \* currentInputTranscription.current
  currentOutput,      \* currentOutputTranscription.current
  transcript,         \* the transcript entries
  isTutorReplying,
  liveUserTranscript,
  ev,                 \* the task or microtask that ran last
  alert,              \* the alert() the last task showed, and what the refs
                      \* held when it was shown
  stopped,            \* a stopSession call has run to its end and
                      \* startSession has not been called since
  heard,              \* the transcript fragments received since the last
                      \* turnComplete, and what the last turnComplete found
  frame,              \* a captured block of samples (SpecCodec)
  decoded,            \* the block after createPcmBlob and decoding
  parse               \* an accumulated output and the tutor entries the
                      \* turnComplete code makes of it (SpecSplit)

\* The state of the App component, and what is recorded about its steps.
appVars ==
  <<apiKey, mode, status, unmounted, nStarts, startPc, sessionPromiseRef,
    streamRef, audioProcessorRef, inputCtxRef, outputCtx, streamStops,
    inputCtxCloses, processor, session, promise, opened, awaiting, micro,
    nFrames, sendCalls, nOutputCtx, clock, ctxTimes, startCtx, memoReplying,
    startReplying, generatePc, nGenerates, exercise, listeningAudioBuffer,
    isListeningAudioPlaying, listeningSource, unheldSources, nPlays,
    curQueue, qNst, qSources, chunks, resetSeen, justCancelled, currentInput,
    currentOutput, transcript, isTutorReplying, liveUserTranscript, ev, alert,
    stopped, heard>>

vars == <<appVars, frame, decoded, parse>>

\* No alert was shown.
NoAlert == [kind |-> "none", stream |-> 0, input |-> 0, proc |-> 0]

\* listeningAudioSourceRef holds no source.
NoSource == [st |-> "none", ctx |-> 0]

\* A server message: input and output hold at most one transcript fragment.
Msg(input, output, turnComplete, audio, dur, interrupted) ==
  [input |-> input, output |-> output, turnComplete |-> turnComplete,
   audio |-> audio, dur |-> dur, interrupted |-> interrupted]

\* A message that carries nothing.
NoMsg == Msg(<<>>, <<>>, FALSE, "none", 0, FALSE)

\* The fragments received since the last turnComplete (input, output), the
\* number of fragments received so far (n) and, when the last task handled a
\* turnComplete (done), the fragments that turn had received (wasIn, wasOut)
\* and the length of the transcript before it (len); last is the message the
\* last task delivered, NoMsg when it delivered none.
Heard(input, output, n, done, wasIn, wasOut, len) ==
  [input |-> input, output |-> output, n |-> n, done |-> done,
   wasIn |-> wasIn, wasOut |-> wasOut, len |-> len, last |-> NoMsg]

\* The state as one record, for the handlers to map.  A task starts with no
\* alert shown and no turnComplete handled.
St ==
  [apiKey |-> apiKey, mode |-> mode, status |-> status, unmounted |-> unmounted,
   nStarts |-> nStarts, startPc |-> startPc,
   sessionPromiseRef |-> sessionPromiseRef, streamRef |-> streamRef,
   audioProcessorRef |-> audioProcessorRef, inputCtxRef |-> inputCtxRef,
   outputCtx |-> outputCtx, streamStops |-> streamStops,
   inputCtxCloses |-> inputCtxCloses, processor |-> processor,
   session |-> session, promise |-> promise, opened |-> opened,
   awaiting |-> awaiting, micro |-> micro, nFrames |-> nFrames,
   sendCalls |-> sendCalls, nOutputCtx |-> nOutputCtx, clock |-> clock,
   ctxTimes |-> ctxTimes, startCtx |-> startCtx,
   memoReplying |-> memoReplying, startReplying |-> startReplying,
   generatePc |-> generatePc, nGenerates |-> nGenerates,
   exercise |-> exercise, listeningAudioBuffer |-> listeningAudioBuffer,
   isListeningAudioPlaying |-> isListeningAudioPlaying,
   listeningSource |-> listeningSource, unheldSources |-> unheldSources,
   nPlays |-> nPlays,
   curQueue |-> curQueue,
   qNst |-> qNst, qSources |-> qSources, chunks |-> chunks,
   resetSeen |-> resetSeen, justCancelled |-> justCancelled,
   currentInput |-> currentInput,
   currentOutput |-> currentOutput, transcript |-> transcript,
   isTutorReplying |-> isTutorReplying,
   liveUserTranscript |-> liveUserTranscript, ev |-> ev, alert |-> NoAlert,
   stopped |-> stopped,
   heard |-> Heard(heard.input, heard.output, heard.n, FALSE, <<>>, <<>>, 0)]

\* The next state is the record S.
Commit(S) ==
  /\ apiKey' = S.apiKey /\ mode' = S.mode /\ status' = S.status
  /\ unmounted' = S.unmounted /\ nStarts' = S.nStarts /\ startPc' = S.startPc
  /\ sessionPromiseRef' = S.sessionPromiseRef /\ streamRef' = S.streamRef
  /\ audioProcessorRef' = S.audioProcessorRef /\ inputCtxRef' = S.inputCtxRef
  /\ outputCtx' = S.outputCtx /\ streamStops' = S.streamStops
  /\ inputCtxCloses' = S.inputCtxCloses /\ processor' = S.processor
  /\ session' = S.session /\ promise' = S.promise /\ opened' = S.opened
  /\ awaiting' = S.awaiting /\ micro' = S.micro /\ nFrames' = S.nFrames
  /\ sendCalls' = S.sendCalls /\ clock' = S.clock /\ curQueue' = S.curQueue
  /\ nOutputCtx' = S.nOutputCtx /\ ctxTimes' = S.ctxTimes
  /\ startCtx' = S.startCtx /\ memoReplying' = S.memoReplying
  /\ startReplying' = S.startReplying
  /\ generatePc' = S.generatePc /\ nGenerates' = S.nGenerates
  /\ exercise' = S.exercise
  /\ listeningAudioBuffer' = S.listeningAudioBuffer
  /\ isListeningAudioPlaying' = S.isListeningAudioPlaying
  /\ listeningSource' = S.listeningSource /\ nPlays' = S.nPlays
  /\ unheldSources' = S.unheldSources
  /\ qNst' = S.qNst /\ qSources' = S.qSources /\ chunks' = S.chunks
  /\ resetSeen' = S.resetSeen /\ currentInput' = S.currentInput
  /\ justCancelled' = S.justCancelled
  /\ currentOutput' = S.currentOutput /\ transcript' = S.transcript
  /\ isTutorReplying' = S.isTutorReplying
  /\ liveUserTranscript' = S.liveUserTranscript /\ ev' = S.ev
  /\ alert' = S.alert /\ heard' = S.heard /\ stopped' = S.stopped
  /\ UNCHANGED <<frame, decoded, parse>>

\* What ran last: op names the handler, s its session or start call, k its
\* chunk, cancel says that the interruption handling ran in it, stop that a
\* stopSession call ran to its end in it, and err names the session whose
\* onerror made that call (0 when the call was made elsewhere).
Ev(op, s, k, cancel, stop, err) ==
  [op |-> op, s |-> s, k |-> k, cancel |-> cancel, stop |-> stop, err |-> err]

Max(a, b) == IF a >= b THEN a ELSE b

InitApp ==
  /\ apiKey \in BOOLEAN
  /\ mode = "CONVERSATION"
  /\ status = "INACTIVE"
  /\ unmounted = FALSE
  /\ nStarts = 0
  /\ startPc = [i \in Ids |-> "idle"]
  /\ sessionPromiseRef = 0
  /\ streamRef = 0
  /\ audioProcessorRef = 0
  /\ inputCtxRef = 0
  /\ outputCtx = "none"
  /\ streamStops = [i \in Ids |-> 0]
  /\ inputCtxCloses = [i \in Ids |-> 0]
  /\ processor = [i \in Ids |-> "none"]
  /\ session = [i \in Ids |-> "none"]
  /\ promise = [i \in Ids |-> "none"]
  /\ opened = {}
  /\ awaiting = [i \in Ids |-> <<>>]
  /\ micro = <<>>
  /\ nFrames = 0
  /\ sendCalls = {}
  /\ nOutputCtx = 0
  /\ clock = 0
  /\ ctxTimes = [c \in Ctxs |-> 0]
  /\ startCtx = [i \in Ids |-> 0]
  /\ memoReplying = FALSE
  /\ startReplying = [i \in Ids |-> FALSE]
  /\ generatePc = "idle"
  /\ nGenerates = 0
  /\ exercise = FALSE
  /\ listeningAudioBuffer = FALSE
  /\ isListeningAudioPlaying = FALSE
  /\ listeningSource = NoSource
  /\ unheldSources = [c \in Ctxs |-> 0]
  /\ nPlays = 0
  /\ curQueue = 0
  /\ qNst = [q \in 0..MaxStarts |-> 0]
  /\ qSources = [q \in 0..MaxStarts |-> {}]
  /\ chunks = <<>>
  /\ resetSeen = FALSE
  /\ justCancelled = FALSE
  /\ currentInput = <<>>
  /\ currentOutput = <<>>
  /\ transcript = <<>>
  /\ isTutorReplying = FALSE
  /\ liveUserTranscript = <<>>
  /\ ev = Ev("init", 0, 0, FALSE, FALSE, 0)
  /\ alert = NoAlert
  /\ stopped = FALSE
  /\ heard = Heard(<<>>, <<>>, 0, FALSE, <<>>, <<>>, 0)

\* An accumulated output, not finalized yet.
Parse(output) == [output |-> output, done |-> FALSE, entries |-> <<>>]

Init == InitApp /\ frame = <<>> /\ decoded = <<>> /\ parse = Parse(<<>>)

\* ------------------------------------------------------------ the session
\* alert(...): the dialog is shown, and blocks, with the refs as they are.
Alert(S, kind) ==
  [S EXCEPT !.alert = [kind |-> kind, stream |-> S.streamRef,
                       input |-> S.inputCtxRef, proc |-> S.audioProcessorRef]]

\* The states in which a session exists and has not been closed.
Live == {"connecting", "open"}

\* currentTime of output context c: the time of a closed context stands
\* still.
CtxTime(S, c) == IF c = S.nOutputCtx THEN S.clock ELSE S.ctxTimes[c]

\* sources.forEach(source => source.stop()) on queue object q: a source that
\* is playing stops (stopAt keeps the time of its context at the call); one
\* that has ended already is left as it is.
StopSources(S, q) ==
  IF S.chunks = <<>> THEN <<>> ELSE
  [k \in DOMAIN S.chunks |->
     IF k \in S.qSources[q] /\ S.chunks[k].st = "playing"
     THEN [S.chunks[k] EXCEPT !.st = "stopped",
                              !.stopAt = CtxTime(S, S.chunks[k].ctx)]
     ELSE S.chunks[k]]

\* The chunks after a teardown of queue object q: its sources are stopped,
\* and torn marks the chunks of q whose decode is in flight at that moment.
TearSources(S, q) ==
  LET C == StopSources(S, q) IN
  IF C = <<>> THEN <<>> ELSE
  [k \in DOMAIN C |->
     IF C[k].q = q /\ C[k].st = "decoding"
     THEN [C[k] EXCEPT !.torn = TRUE] ELSE C[k]]

\* getOutputAudioContext: the context kept in the ref, or a new one when
\* there is none or it is closed.  A new context's clock starts at 0; the
\* closed one it replaces keeps the time it had.
GetOutputAudioContext(S) ==
  IF S.outputCtx = "open" THEN S
  ELSE [S EXCEPT !.outputCtx = "open",
                 !.ctxTimes = IF S.nOutputCtx = 0 THEN @
                              ELSE [@ EXCEPT ![S.nOutputCtx] = S.clock],
                 !.nOutputCtx = @ + 1,
                 !.clock = 0]

\* listeningAudioSourceRef.current = null: the source the ref held, if any,
\* is held no more; its ended listener is still to run.
DropListeningSource(S) ==
  IF S.listeningSource.st = "none" THEN S
  ELSE [S EXCEPT !.unheldSources =
                   [@ EXCEPT ![S.listeningSource.ctx] = @ + 1],
                 !.listeningSource = NoSource]

\* The end of cleanupSessionResources: the listening source in the ref is
\* stopped and the ref nulled; isListeningAudioPlaying is set to false.
CleanupListening(S) ==
  [DropListeningSource(S) EXCEPT !.isListeningAudioPlaying = FALSE]

\* cleanupSessionResources, with the first lines left out: the reference to
\* the microphone stream is kept.
CleanupKeepsStreamRef(S) ==
  LET q == S.curQueue IN
  [CleanupListening(S) EXCEPT
     !.streamStops = IF S.streamRef = 0 THEN @
                     ELSE [@ EXCEPT ![S.streamRef] = @ + 1],
     !.processor = IF S.audioProcessorRef = 0 THEN @
                   ELSE [@ EXCEPT ![S.audioProcessorRef] = "disconnected"],
     !.audioProcessorRef = 0,
     !.chunks = TearSources(S, q),
     !.qSources = [@ EXCEPT ![q] = {}],
     !.qNst = [@ EXCEPT ![q] = 0],
     !.resetSeen = @ \/ S.chunks # <<>>,
     !.inputCtxCloses = IF S.inputCtxRef = 0 THEN @
                        ELSE [@ EXCEPT ![S.inputCtxRef] = @ + 1],
     !.inputCtxRef = 0]

\* cleanupSessionResources: stop the tracks of the stream in streamRef and
\* null it, disconnect the processor in audioProcessorRef and null it, stop
\* and clear the sources of the current queue and zero its nextStartTime,
\* close and delete the input context; then the listening source is stopped
\* and dropped.  The output context is not touched.
CleanupSessionResources(S) ==
  LET q == S.curQueue IN
  [CleanupListening(S) EXCEPT
     !.streamStops = IF S.streamRef = 0 THEN @
                     ELSE [@ EXCEPT ![S.streamRef] = @ + 1],
     !.streamRef = 0,
     !.processor = IF S.audioProcessorRef = 0 THEN @
                   ELSE [@ EXCEPT ![S.audioProcessorRef] = "disconnected"],
     !.audioProcessorRef = 0,
     !.chunks = TearSources(S, q),
     !.qSources = [@ EXCEPT ![q] = {}],
     !.qNst = [@ EXCEPT ![q] = 0],
     !.resetSeen = @ \/ S.chunks # <<>>,
     !.inputCtxCloses = IF S.inputCtxRef = 0 THEN @
                        ELSE [@ EXCEPT ![S.inputCtxRef] = @ + 1],
     !.inputCtxRef = 0]

\* session.close() on session p: an open session starts closing (its close
\* event follows); on any other session the call does nothing.
SessionClose(S, p) ==
  IF S.session[p] = "open"
  THEN [S EXCEPT !.session = [@ EXCEPT ![p] = "closing"]]
  ELSE S

\* stopSession from the call of cleanupSessionResources to its end.
StopSessionTail(S) ==
  [CleanupSessionResources(S) EXCEPT
     !.isTutorReplying = FALSE,
     !.liveUserTranscript = <<>>,
     !.status = "INACTIVE",
     !.stopped = TRUE]

\* stopSession after its await of the promise of session p: close the
\* session when the promise resolved (a rejection is caught and logged),
\* null sessionPromiseRef, then the tail.
StopSessionResume(S, p) ==
  LET S1 == IF S.promise[p] = "resolved" THEN SessionClose(S, p) ELSE S
  IN  StopSessionTail([S1 EXCEPT !.sessionPromiseRef = 0])

\* stopSession up to its await: with no session promise it runs to its end;
\* otherwise it waits for the promise, as a microtask when that is settled.
\* by is the session whose onerror makes the call, 0 for any other caller:
\* it is carried along to tell the calls apart and decides nothing.
StopSession(S, by) ==
  LET p == S.sessionPromiseRef IN
  IF p = 0 THEN StopSessionTail(S)
  ELSE IF S.promise[p] = "pending"
  THEN [S EXCEPT !.awaiting = [@ EXCEPT ![p] = Append(@, <<"stop", by>>)]]
  ELSE [S EXCEPT !.micro = Append(@, <<"stop", p, by>>)]

\* The bound on the continuations one pending promise holds.
CanAwait(S) ==
  LET p == S.sessionPromiseRef IN
  IF p = 0 THEN TRUE
  ELSE IF S.promise[p] # "pending" THEN TRUE
  ELSE Len(S.awaiting[p]) < MaxAwait

\* session.sendRealtimeInput on session p, reached through the promise;
\* late is 1 when session p was not open as the block was captured.
SendRealtimeInput(S, p, late) ==
  [S EXCEPT !.sendCalls = @ \cup {<<p, S.session[p], late>>}]

\* One microtask.
RunMicrotask(S) ==
  LET t == Head(S.micro)
      S1 == [S EXCEPT !.micro = Tail(@)]
  IN  IF t[1] = "stop" THEN StopSessionResume(S1, t[2])
      ELSE SendRealtimeInput(S1, t[2], t[3])

\* The microtask queue run until it is empty.
RECURSIVE Drain(_)
Drain(S) == IF S.micro = <<>> THEN S ELSE Drain(RunMicrotask(S))

\* The continuations of promise p as microtasks, in the order they were
\* registered; keep says which kinds the settlement runs.
RECURSIVE Reactions(_, _, _)
Reactions(w, p, keep) ==
  IF w = <<>> THEN <<>>
  ELSE (IF Head(w)[1] \in keep THEN << <<Head(w)[1], p, Head(w)[2]>> >>
        ELSE <<>>)
       \o Reactions(Tail(w), p, keep)

\* The promise of session p resolves: every continuation runs.
ResolvePromise(S, p) ==
  [S EXCEPT !.promise = [@ EXCEPT ![p] = "resolved"],
            !.micro = @ \o Reactions(S.awaiting[p], p, {"stop", "send"}),
            !.awaiting = [@ EXCEPT ![p] = <<>>]]

\* The promise of session p rejects: the awaits of stopSession throw into
\* its catch; the then() of a captured block has no rejection handler.
RejectPromise(S, p) ==
  [S EXCEPT !.promise = [@ EXCEPT ![p] = "rejected"],
            !.micro = @ \o Reactions(S.awaiting[p], p, {"stop"}),
            !.awaiting = [@ EXCEPT ![p] = <<>>]]

\* startSession up to its await of getUserMedia.  Without an API key it
\* alerts, sets ERROR and returns.  The topic is not empty: the Start button
\* is disabled otherwise.
StartSession(S) ==
  IF ~S.apiKey
  THEN [Alert(S, "apiKey") EXCEPT !.status = "ERROR", !.stopped = FALSE]
  ELSE LET i == S.nStarts + 1 IN
       [S EXCEPT !.nStarts = i,
                 !.stopped = FALSE,
                 !.startReplying = [@ EXCEPT ![i] = S.memoReplying],
                 !.startPc = [@ EXCEPT ![i] = "awaitMic"],
                 !.transcript = <<>>,
                 !.liveUserTranscript = <<>>,
                 !.status = "CONNECTING"]

\* startSession that binds the capture processor before connecting.
StartSessionBindsEarly(S, i) ==
  LET S1 == GetOutputAudioContext(S) IN
  [S1 EXCEPT !.streamRef = i,
             !.startCtx = [@ EXCEPT ![i] = S1.nOutputCtx],
             !.inputCtxRef = i,
             !.curQueue = i,
             !.resetSeen = @ \/ S.chunks # <<>>,
             !.justCancelled = FALSE,
             !.sessionPromiseRef = i,
             !.session = [@ EXCEPT ![i] = "connecting"],
             !.promise = [@ EXCEPT ![i] = "pending"],
             !.processor = [@ EXCEPT ![i] = "connected"],
             !.audioProcessorRef = i,
             !.startPc = [@ EXCEPT ![i] = "granted"]]

\* startSession call i after getUserMedia resolved: keep the stream, get the
\* output context, make the input context, replace the playback queue by a
\* new object and connect.  The connect promise is stored, not awaited.
StartSessionConnect(S, i) ==
  LET S1 == GetOutputAudioContext(S) IN
  [S1 EXCEPT !.streamRef = i,
             !.startCtx = [@ EXCEPT ![i] = S1.nOutputCtx],
             !.inputCtxRef = i,
             !.curQueue = i,
             !.resetSeen = @ \/ S.chunks # <<>>,
             !.justCancelled = FALSE,
             !.sessionPromiseRef = i,
             !.session = [@ EXCEPT ![i] = "connecting"],
             !.promise = [@ EXCEPT ![i] = "pending"],
             !.startPc = [@ EXCEPT ![i] = "granted"]]

\* The catch block without its setStatus(INACTIVE).
StartSessionCatchKeepsStatus(S, i) ==
  [CleanupSessionResources(Alert(S, "microphone")) EXCEPT
     !.isTutorReplying = FALSE,
     !.startPc = [@ EXCEPT ![i] = "denied"]]

\* startSession call i after getUserMedia rejected: the catch block, which
\* alerts, then cleans up and sets INACTIVE.
StartSessionCatch(S, i) ==
  [CleanupSessionResources(Alert(S, "microphone")) EXCEPT
     !.isTutorReplying = FALSE,
     !.status = "INACTIVE",
     !.startPc = [@ EXCEPT ![i] = "denied"]]

\* onopen of session i: ACTIVE, and the script processor is made, bound to
\* the stream this startSession call acquired and kept in audioProcessorRef.
OnOpen(S, i) ==
  [S EXCEPT !.status = "ACTIVE",
            !.isTutorReplying = FALSE,
            !.processor = [@ EXCEPT ![i] = "connected"],
            !.audioProcessorRef = i]

\* onerror: alert, ERROR, then stopSession (not awaited).
OnError(S, i) ==
  StopSession([Alert(S, "transport") EXCEPT !.status = "ERROR"], i)

\* onclose: cleanupSessionResources, nothing else.
OnClose(S) == CleanupSessionResources(S)

\* onaudioprocess: sessionPromiseRef.current?.then(session => send).
OnAudioProcess(S) ==
  LET p == S.sessionPromiseRef
      S1 == [S EXCEPT !.nFrames = @ + 1]
  IN  IF p = 0 \/ S.promise[p] = "rejected" THEN S1
      ELSE IF S.promise[p] = "pending"
      THEN [S1 EXCEPT !.awaiting = [@ EXCEPT ![p] = Append(@, <<"send", 1>>)]]
      ELSE [S1 EXCEPT !.micro =
              Append(@, <<"send", p, IF S.session[p] = "open" THEN 0 ELSE 1>>)]

\* -------------------------------------------------------------- listening
\* listeningAudioSourceRef.current.stop(), when the ref holds a source: a
\* playing source stops, its ended event comes later.
StopListeningSource(S) ==
  IF S.listeningSource.st = "playing"
  THEN [S EXCEPT !.listeningSource = [@ EXCEPT !.st = "stopped"]]
  ELSE S

\* generateListeningExercise up to its first await.  Without an API key it
\* alerts and returns.
GenerateListeningExercise(S) ==
  IF ~S.apiKey THEN Alert(S, "listeningApiKey")
  ELSE [StopListeningSource(S) EXCEPT !.generatePc = "text",
                                      !.nGenerates = @ + 1,
                                      !.exercise = FALSE,
                                      !.listeningAudioBuffer = FALSE]

\* The catch and finally blocks of generateListeningExercise.
GenerateCatch(S) ==
  [Alert(S, "listening") EXCEPT !.exercise = FALSE, !.generatePc = "idle"]

\* generateListeningExercise after the text response: the exercise is set
\* and the audio is requested; a response that cannot be used throws.
GenerateText(S, ok) ==
  IF ok THEN [S EXCEPT !.exercise = TRUE, !.generatePc = "audio"]
  ELSE GenerateCatch(S)

\* generateListeningExercise after the audio response: the output context
\* is got and the audio is handed to decodeAudioData.
GenerateAudio(S, ok) ==
  IF ok THEN [GetOutputAudioContext(S) EXCEPT !.generatePc = "decode"]
  ELSE GenerateCatch(S)

\* generateListeningExercise after the decode: the buffer is set.
GenerateDecoded(S, ok) ==
  IF ok THEN [S EXCEPT !.listeningAudioBuffer = TRUE, !.generatePc = "idle"]
  ELSE GenerateCatch(S)

\* handleToggleListeningAudio: stops the source when one plays; otherwise,
\* with a buffer, gets the output context and starts a source on it.
HandleToggleListeningAudio(S) ==
  IF S.isListeningAudioPlaying THEN StopListeningSource(S)
  ELSE IF ~S.listeningAudioBuffer THEN S
  ELSE LET S1 == GetOutputAudioContext(S) IN
       [S1 EXCEPT !.listeningSource = [st |-> "playing",
                                       ctx |-> S1.nOutputCtx],
                  !.nPlays = @ + 1,
                  !.isListeningAudioPlaying = TRUE]

\* onended of the source the ref holds: isListeningAudioPlaying is set to
\* false and the ref nulled.
ListeningEnded(S) ==
  [S EXCEPT !.isListeningAudioPlaying = FALSE, !.listeningSource = NoSource]

\* onended of a source on context c that the ref holds no more: the same
\* listener, so the ref is nulled whatever source it holds.
UnheldEnded(S, c) ==
  [DropListeningSource([S EXCEPT !.unheldSources = [@ EXCEPT ![c] = @ - 1]])
     EXCEPT !.isListeningAudioPlaying = FALSE]

\* ------------------------------------------------------------ transcripts
\* Text is a sequence of code points, each a string: the character itself
\* where a TLA+ string can hold it, its U+ name otherwise.
\* WhiteSpace of ECMAScript: tab, vertical tab, form feed, the byte order
\* mark and every space separator (Zs) of Unicode.
WhiteSpace ==
  { "\t", "U+000B", "\f", "U+FEFF", " ", "U+00A0", "U+1680", "U+2000",
    "U+2001", "U+2002", "U+2003", "U+2004", "U+2005", "U+2006", "U+2007",
    "U+2008", "U+2009", "U+200A", "U+202F", "U+205F", "U+3000" }

\* LineTerminator of ECMAScript.
LineTerminator == { "\n", "\r", "U+2028", "U+2029" }

\* The code points String.prototype.trim removes.
IsSpace(c) == c \in WhiteSpace \cup LineTerminator

RECURSIVE TrimStart(_)
TrimStart(s) ==
  IF s # <<>> /\ IsSpace(Head(s)) THEN TrimStart(Tail(s)) ELSE s

RECURSIVE TrimEnd(_)
TrimEnd(s) ==
  IF s # <<>> /\ IsSpace(s[Len(s)]) THEN TrimEnd(SubSeq(s, 1, Len(s) - 1))
  ELSE s

\* String.prototype.trim
Trim(s) == TrimEnd(TrimStart(s))

StartsWith(s, p) == Len(s) >= Len(p) /\ SubSeq(s, 1, Len(p)) = p

\* The place of the first occurrence of sep in s, 0 when there is none.
IndexOf(s, sep) ==
  LET at == {i \in 1..(Len(s) - Len(sep) + 1) :
               SubSeq(s, i, i + Len(sep) - 1) = sep}
  IN  IF at = {} THEN 0 ELSE CHOOSE i \in at : \A j \in at : i <= j

CorrectionPrefix == <<"C", "o", "r", "r", "e", "c", "t", "i", "o", "n", ":">>
Separator == <<"|", "|">>
Undefined == <<"undefined">>

\* The fragments fs, joined in the order they arrived.
RECURSIVE Flat(_)
Flat(fs) == IF fs = <<>> THEN <<>> ELSE Head(fs) \o Flat(Tail(fs))

\* The accumulated outputs of SpecSplit: the prefix, the separator, a
\* letter, a bar, a blank and a tab, joined in every order.
SplitPieces ==
  { CorrectionPrefix, Separator, <<"x">>, <<"|">>, <<" ">>, <<"\t">> }
SplitOutputs ==
  { Flat(s) : s \in UNION { [1..n -> SplitPieces] : n \in 0..SplitLen } }

\* The tutor entry whose reply is the second part only: what follows a
\* second separator is lost.
TutorEntriesSecondPart(finalOutput) ==
  LET at == IndexOf(finalOutput, Separator)
      split == StartsWith(finalOutput, CorrectionPrefix) /\ at > 0
      rest == SubSeq(finalOutput, at + Len(Separator), Len(finalOutput))
      more == IndexOf(rest, Separator)
      correctionText ==
        IF split
        THEN Trim(SubSeq(finalOutput, Len(CorrectionPrefix) + 1, at - 1))
        ELSE Undefined
      replyText ==
        IF split
        THEN Trim(IF more = 0 THEN rest ELSE SubSeq(rest, 1, more - 1))
        ELSE finalOutput
  IN  IF replyText # <<>> \/ (split /\ correctionText # <<>>)
      THEN << [speaker |-> "Tutor", text |-> replyText,
               correction |-> correctionText] >>
      ELSE <<>>

\* The tutor entry added whatever the reply and the correction are.
TutorEntriesAlways(finalOutput) ==
  LET at == IndexOf(finalOutput, Separator)
      split == StartsWith(finalOutput, CorrectionPrefix) /\ at > 0
      correctionText ==
        IF split
        THEN Trim(SubSeq(finalOutput, Len(CorrectionPrefix) + 1, at - 1))
        ELSE Undefined
      replyText ==
        IF split
        THEN Trim(SubSeq(finalOutput, at + Len(Separator), Len(finalOutput)))
        ELSE finalOutput
  IN  << [speaker |-> "Tutor", text |-> replyText,
          correction |-> correctionText] >>

\* The tutor entries a finalized output adds: the correction is the text
\* between the prefix and the first separator, the reply all that follows
\* the first separator (split, then slice(1) joined again).
TutorEntries(finalOutput) ==
  LET at == IndexOf(finalOutput, Separator)
      split == StartsWith(finalOutput, CorrectionPrefix) /\ at > 0
      correctionText ==
        IF split
        THEN Trim(SubSeq(finalOutput, Len(CorrectionPrefix) + 1, at - 1))
        ELSE Undefined
      replyText ==
        IF split
        THEN Trim(SubSeq(finalOutput, at + Len(Separator), Len(finalOutput)))
        ELSE finalOutput
  IN  IF replyText # <<>> \/ (split /\ correctionText # <<>>)
      THEN << [speaker |-> "Tutor", text |-> replyText,
               correction |-> correctionText] >>
      ELSE <<>>

\* turnComplete that takes the accumulators as they are, untrimmed.
TurnCompleteNoTrim(S) ==
  LET finalInput == S.currentInput
      finalOutput == S.currentOutput
      user == IF finalInput # <<>>
              THEN << [speaker |-> "You", text |-> finalInput,
                       correction |-> Undefined] >>
              ELSE <<>>
      tutor == IF finalOutput # <<>> THEN TutorEntries(finalOutput) ELSE <<>>
  IN  [S EXCEPT !.currentInput = <<>>,
                !.currentOutput = <<>>,
                !.liveUserTranscript = <<>>,
                !.isTutorReplying = FALSE,
                !.transcript = @ \o user \o tutor]

\* onmessage, turnComplete: both accumulators are trimmed and emptied, and
\* the sides that are not empty are added to the transcript.
TurnComplete(S) ==
  LET finalInput == Trim(S.currentInput)
      finalOutput == Trim(S.currentOutput)
      user == IF finalInput # <<>>
              THEN << [speaker |-> "You", text |-> finalInput,
                       correction |-> Undefined] >>
              ELSE <<>>
      tutor == IF finalOutput # <<>> THEN TutorEntries(finalOutput) ELSE <<>>
  IN  [S EXCEPT !.currentInput = <<>>,
                !.currentOutput = <<>>,
                !.liveUserTranscript = <<>>,
                !.isTutorReplying = FALSE,
                !.transcript = @ \o user \o tutor]

\* --------------------------------------------------------------- playback
\* A source has been started on the output device.
Started == {"playing", "ended", "stopped"}

\* The interruption handling without sources.clear().
InterruptedKeepsSources(S) ==
  LET q == S.curQueue
      C == StopSources(S, q)
  IN  [S EXCEPT
         !.chunks = IF C = <<>> THEN <<>> ELSE
                    [k \in DOMAIN C |->
                       IF C[k].st = "decoding"
                       THEN [C[k] EXCEPT !.cancelled = TRUE] ELSE C[k]],
         !.qNst = [@ EXCEPT ![q] = 0],
         !.resetSeen = @ \/ S.chunks # <<>>,
         !.justCancelled = TRUE]

\* onmessage, interrupted: stop every source of the current queue, clear
\* the set, zero nextStartTime.  cancelled marks the chunks whose decode is
\* in flight at that moment.
InterruptedHandling(S) ==
  LET q == S.curQueue
      C == StopSources(S, q)
  IN  [S EXCEPT
         !.chunks = IF C = <<>> THEN <<>> ELSE
                    [k \in DOMAIN C |->
                       IF C[k].st = "decoding"
                       THEN [C[k] EXCEPT !.cancelled = TRUE] ELSE C[k]],
         !.qSources = [@ EXCEPT ![q] = {}],
         !.qNst = [@ EXCEPT ![q] = 0],
         !.resetSeen = @ \/ S.chunks # <<>>,
         !.justCancelled = TRUE]

\* onmessage that dispatches turnComplete before the transcript fragments.
OnMessageTurnFirst(S, s, m) ==
  LET S0 == IF m.turnComplete
            THEN [TurnComplete(S) EXCEPT
                    !.heard = Heard(<<>>, <<>>, S.heard.n, TRUE, S.heard.input,
                                    S.heard.output, Len(S.transcript))]
            ELSE S
      S1 == IF m.input # <<>>
            THEN [S0 EXCEPT !.currentInput = @ \o m.input[1],
                           !.liveUserTranscript = S0.currentInput \o m.input[1],
                           !.heard = [@ EXCEPT !.input = Append(@, m.input[1]),
                                               !.n = @ + 1]]
            ELSE S0
      S2 == IF m.output # <<>>
            THEN [S1 EXCEPT !.isTutorReplying = @ \/ ~S.startReplying[s],
                            !.currentOutput = @ \o m.output[1],
                            !.heard = [@ EXCEPT !.output = Append(@, m.output[1]),
                                                !.n = @ + 1]]
            ELSE S1
      S3 == S2
      q == S3.curQueue
      now == CtxTime(S3, S3.startCtx[s])
      c == [dur |-> m.dur, nst |-> S3.qNst[q],
            eff |-> Max(S3.qNst[q], now), rcv |-> now, at |-> -1,
            ctx |-> S3.startCtx[s], q |-> q, sess |-> s,
            intr |-> m.interrupted,
            ok |-> m.audio = "ok", st |-> "decoding", cancelled |-> FALSE,
            torn |-> FALSE, stopAt |-> -1, honoured |-> FALSE]
  IN  IF m.audio # "none" THEN [S3 EXCEPT !.chunks = Append(@, c)]
      ELSE IF m.interrupted THEN InterruptedHandling(S3)
      ELSE S3

\* onmessage of session s up to its await of decodeAudioData, or to its end
\* when the message carries no audio.  isTutorReplying is tested as the
\* startSession call of s saw it.  With audio, nextStartTime and the sources
\* set are read from the current queue and effectiveStartTime is computed
\* before the await, from the time of the output context that call got.
OnMessage(S, s, m) ==
  LET S1 == IF m.input # <<>>
            THEN [S EXCEPT !.currentInput = @ \o m.input[1],
                           !.liveUserTranscript = S.currentInput \o m.input[1],
                           !.heard = [@ EXCEPT !.input = Append(@, m.input[1]),
                                               !.n = @ + 1]]
            ELSE S
      S2 == IF m.output # <<>>
            THEN [S1 EXCEPT !.isTutorReplying = @ \/ ~S.startReplying[s],
                            !.currentOutput = @ \o m.output[1],
                            !.heard = [@ EXCEPT !.output = Append(@, m.output[1]),
                                                !.n = @ + 1]]
            ELSE S1
      S3 == IF m.turnComplete
            THEN [TurnComplete(S2) EXCEPT
                    !.heard = Heard(<<>>, <<>>, S2.heard.n, TRUE, S2.heard.input,
                                    S2.heard.output, Len(S2.transcript))]
            ELSE S2
      q == S3.curQueue
      now == CtxTime(S3, S3.startCtx[s])
      c == [dur |-> m.dur, nst |-> S3.qNst[q],
            eff |-> Max(S3.qNst[q], now), rcv |-> now, at |-> -1,
            ctx |-> S3.startCtx[s], q |-> q, sess |-> s,
            intr |-> m.interrupted,
            ok |-> m.audio = "ok", st |-> "decoding", cancelled |-> FALSE,
            torn |-> FALSE, stopAt |-> -1, honoured |-> FALSE]
  IN  IF m.audio # "none" THEN [S3 EXCEPT !.chunks = Append(@, c)]
      ELSE IF m.interrupted THEN InterruptedHandling(S3)
      ELSE S3

\* onmessage after its await, the decode of chunk k resolved: the source is
\* started at the effectiveStartTime computed before the await, nextStartTime
\* of the current queue is written, the source joins the set read before the
\* await; then the interruption of the same message is handled (honoured
\* marks the chunk of a message whose interruption has been handled).
DecodeResolved(S, k) ==
  LET c == S.chunks[k]
      S1 == [S EXCEPT
               !.chunks = [@ EXCEPT ![k] = [@ EXCEPT !.st = "playing",
                                                     !.at = CtxTime(S, c.ctx)]],
               !.qNst = [@ EXCEPT ![S.curQueue] = c.eff + c.dur],
               !.qSources = [@ EXCEPT ![c.q] = @ \cup {k}],
               !.justCancelled = FALSE]
  IN  IF c.intr
      THEN [InterruptedHandling(S1) EXCEPT
              !.chunks = [@ EXCEPT ![k] = [@ EXCEPT !.honoured = TRUE]]]
      ELSE S1

\* A failed decode that resets the playback queue.
DecodeRejectedResets(S, k) ==
  InterruptedHandling(
    [S EXCEPT !.chunks = [@ EXCEPT ![k] = [@ EXCEPT !.st = "failed"]]])

\* The decode of chunk k failed: the handler ends there, with the rejection.
DecodeRejected(S, k) ==
  [S EXCEPT !.chunks = [@ EXCEPT ![k] = [@ EXCEPT !.st = "failed"]]]

\* The time at which source k is done playing.
EndTime(c) == Max(c.eff, c.at) + c.dur

\* The ended listener of source k: sources.delete on the set read before the
\* await.
OnEnded(S, k) ==
  [S EXCEPT !.chunks = [@ EXCEPT ![k] = [@ EXCEPT !.st = "ended"]],
            !.qSources = [@ EXCEPT ![S.chunks[k].q] = @ \ {k}]]

\* ------------------------------------------------------------------ codec
\* A sample is an integer n that stands for the number n / SampleUnits, so
\* that the samples between two 16-bit steps are there too.
SCRIPT_PROCESSOR_BUFFER_SIZE == 4096
SampleScale == 32768
Int16Size == 65536
SampleUnits == 2 * SampleScale

\* The integer part of n / d, towards zero.
Trunc(n, d) == IF n >= 0 THEN n \div d ELSE -((-n) \div d)

\* What an Int16Array element holds after a number is assigned to it: the
\* integer part, modulo 2^16, as a signed 16-bit integer.
ToInt16(n, d) ==
  ((Trunc(n, d) + Int16Size \div 2) % Int16Size) - Int16Size \div 2

\* new Uint8Array(int16.buffer): two bytes a sample, low byte first.
Int16Bytes(int16) ==
  [j \in 1..(2 * Len(int16)) |->
     LET u == (int16[(j + 1) \div 2] + Int16Size) % Int16Size
     IN  IF j % 2 = 1 THEN u % 256 ELSE u \div 256]

\* encode of ./utils/audio: base64.  A character is its 6-bit value, 64 is
\* the padding.
Encode(bytes) ==
  LET L == Len(bytes)
      byte(i) == IF i <= L THEN bytes[i] ELSE 0
  IN  [j \in 1..(4 * ((L + 2) \div 3)) |->
         LET g == (j - 1) \div 4
             r == (j - 1) % 4
             b1 == byte(3 * g + 1)
             b2 == byte(3 * g + 2)
             b3 == byte(3 * g + 3)
         IN  IF r = 0 THEN b1 \div 4
             ELSE IF r = 1 THEN (b1 % 4) * 16 + b2 \div 16
             ELSE IF r = 2 THEN (IF 3 * g + 2 > L THEN 64
                                 ELSE (b2 % 16) * 4 + b3 \div 64)
             ELSE (IF 3 * g + 3 > L THEN 64 ELSE b3 % 64)]

\* decode of ./utils/audio: the bytes of a base64 text.
Decode(text) ==
  LET pads == Cardinality({j \in DOMAIN text : text[j] = 64})
      c(j) == IF text[j] = 64 THEN 0 ELSE text[j]
  IN  [i \in 1..(3 * (Len(text) \div 4) - pads) |->
         LET g == (i - 1) \div 3
             r == (i - 1) % 3
         IN  IF r = 0 THEN c(4 * g + 1) * 4 + c(4 * g + 2) \div 16
             ELSE IF r = 1 THEN (c(4 * g + 2) % 16) * 16 + c(4 * g + 3) \div 4
             ELSE (c(4 * g + 3) % 4) * 64 + c(4 * g + 4)]

\* createPcmBlob: every sample times 32768 into an Int16Array, the bytes of
\* the array in base64.
\* A sample n stands for n / SampleUnits: times SampleScale it is
\* n / (SampleUnits / SampleScale).
CreatePcmBlob(data) ==
  Encode(Int16Bytes([i \in 1..Len(data) |->
                       ToInt16(data[i], SampleUnits \div SampleScale)]))

\* decodeAudioData of ./utils/audio: the bytes read as signed 16-bit
\* integers, low byte first, each divided by 32768.
DecodeAudioData(bytes) ==
  [i \in 1..(Len(bytes) \div 2) |->
     LET u == bytes[2 * i - 1] + 256 * bytes[2 * i]
         v == IF u >= Int16Size \div 2 THEN u - Int16Size ELSE u
     IN  v * (SampleUnits \div SampleScale)]

\* The frames of SpecCodec: every sample from -1 to 1, and silence of one
\* script processor block.
CodecFrames ==
  UNION { [1..n -> (-SampleUnits)..SampleUnits] : n \in 1..CodecLen }
    \cup { [i \in 1..SCRIPT_PROCESSOR_BUFFER_SIZE |-> 0] }

\* ---------------------------------------------------------------- actions
\* The messages of Spec: a chunk of half a second, an interruption.
LifeMsgs ==
  { Msg(<<>>, <<>>, FALSE, "ok", 1, FALSE),
    Msg(<<>>, <<>>, FALSE, "none", 0, TRUE) }

\* The messages of SpecPlay: a chunk of half a second or of one second, a
\* chunk with an interruption, a malformed chunk, an interruption.
PlayMsgs ==
  { Msg(<<>>, <<>>, FALSE, "ok", 1, FALSE),
    Msg(<<>>, <<>>, FALSE, "ok", 2, FALSE),
    Msg(<<>>, <<>>, FALSE, "ok", 1, TRUE),
    Msg(<<>>, <<>>, FALSE, "bad", 0, FALSE),
    Msg(<<>>, <<>>, FALSE, "none", 0, TRUE) }

\* The messages of SpecOrder: well-formed chunks and nothing else.
OrderMsgs ==
  { Msg(<<>>, <<>>, FALSE, "ok", 1, FALSE),
    Msg(<<>>, <<>>, FALSE, "ok", 2, FALSE) }

\* The transcript fragments of SpecTurn.
InFrags == { <<"a">>, <<"b">>, <<" ">>, <<"\t">> }
OutFrags == { CorrectionPrefix, Separator, <<"x">>, <<" ">>, <<"U+00A0">> }

\* The messages of SpecTurn: a fragment of the user's or of the tutor's
\* transcript, a turnComplete, a fragment with a turnComplete.
TurnMsgs ==
  { Msg(<<f>>, <<>>, FALSE, "none", 0, FALSE) : f \in InFrags }
    \cup { Msg(<<>>, <<g>>, FALSE, "none", 0, FALSE) : g \in OutFrags }
    \cup { Msg(<<>>, <<>>, TRUE, "none", 0, FALSE),
           Msg(<< <<"b">> >>, <<>>, TRUE, "none", 0, FALSE) }

\* The messages of SpecCombo: every combination of an input fragment, an
\* output fragment, a turnComplete, an audio chunk and an interruption.
ComboMsgs ==
  { Msg(i, o, tc, a, IF a = "ok" THEN 1 ELSE 0, intr) :
      i \in { <<>>, << <<"a">> >>, << <<" ">> >>, << <<"\r">> >> },
      o \in { <<>>, << <<"x">> >> },
      tc \in BOOLEAN, a \in {"none", "ok"}, intr \in BOOLEAN } \ {NoMsg}

\* The messages of SpecLeak: a fragment of the user's transcript, one of the
\* tutor's, a turnComplete.
LeakMsgs ==
  { Msg(<< <<"a">> >>, <<>>, FALSE, "none", 0, FALSE),
    Msg(<<>>, << <<"x">> >>, FALSE, "none", 0, FALSE),
    Msg(<<>>, <<>>, TRUE, "none", 0, FALSE) }

\* The messages of SpecHonour: a chunk, a chunk with an interruption, a
\* malformed chunk with an interruption, an interruption.
HonourMsgs ==
  { Msg(<<>>, <<>>, FALSE, "ok", 1, FALSE),
    Msg(<<>>, <<>>, FALSE, "ok", 1, TRUE),
    Msg(<<>>, <<>>, FALSE, "bad", 0, TRUE),
    Msg(<<>>, <<>>, FALSE, "none", 0, TRUE) }

\* The Start button: shown in conversation mode when INACTIVE or ERROR.
StartClick(maxStarts) ==
  /\ micro = <<>> /\ ~unmounted
  /\ mode = "CONVERSATION"
  /\ status \in {"INACTIVE", "ERROR"}
  /\ nStarts < maxStarts
  /\ Commit([StartSession(St) EXCEPT
               !.ev = Ev("startSession", 0, 0, FALSE, FALSE, 0)])

\* The Stop button: shown in conversation mode when ACTIVE.
StopClick ==
  /\ micro = <<>> /\ ~unmounted
  /\ mode = "CONVERSATION"
  /\ status = "ACTIVE"
  /\ CanAwait(St)
  /\ Commit([StopSession(St, 0) EXCEPT
               !.ev = Ev("stopSession", 0, 0, FALSE, sessionPromiseRef = 0, 0)])

\* The topic input or the level selector, enabled when INACTIVE or ERROR: a
\* change of topic or level makes the next render memoize startSession
\* again, with the isTutorReplying of that render.
TopicChange ==
  /\ micro = <<>> /\ ~unmounted
  /\ mode = "CONVERSATION"
  /\ status \in {"INACTIVE", "ERROR"}
  /\ Commit([St EXCEPT !.memoReplying = isTutorReplying,
                       !.ev = Ev("topicChange", 0, 0, FALSE, FALSE, 0)])

\* The mode selector and the effect it triggers: stopSession, then the
\* transcript is emptied.
ModeChange ==
  /\ micro = <<>> /\ ~unmounted
  /\ CanAwait(St)
  /\ Commit([StopSession(St, 0) EXCEPT
               !.mode = IF mode = "CONVERSATION" THEN "LISTENING"
                        ELSE "CONVERSATION",
               !.transcript = <<>>,
               !.liveUserTranscript = <<>>,
               !.exercise = FALSE,
               !.listeningAudioBuffer = FALSE,
               !.ev = Ev("modeChange", 0, 0, FALSE, sessionPromiseRef = 0, 0)])

\* The unmount effect: stopSession, then the output context is closed.
Unmount ==
  /\ micro = <<>> /\ ~unmounted
  /\ CanAwait(St)
  /\ Commit([StopSession(St, 0) EXCEPT
               !.unmounted = TRUE,
               !.outputCtx = IF @ = "none" THEN @ ELSE "closed",
               !.ev = Ev("unmount", 0, 0, FALSE, sessionPromiseRef = 0, 0)])

\* The Generate Exercise button: shown in listening mode, disabled while an
\* exercise is generated.
GenerateClick ==
  /\ micro = <<>> /\ ~unmounted
  /\ mode = "LISTENING"
  /\ generatePc = "idle"
  /\ nGenerates < MaxGenerates
  /\ Commit([GenerateListeningExercise(St) EXCEPT
               !.ev = Ev("generate", 0, 0, FALSE, FALSE, 0)])

\* The text response of generateListeningExercise arrives, usable or not.
TextResponse(ok) ==
  /\ micro = <<>>
  /\ generatePc = "text"
  /\ Commit([GenerateText(St, ok) EXCEPT
               !.ev = Ev("generateText", 0, 0, FALSE, FALSE, 0)])

\* The audio response of generateListeningExercise arrives, usable or not.
AudioResponse(ok) ==
  /\ micro = <<>>
  /\ generatePc = "audio"
  /\ Commit([GenerateAudio(St, ok) EXCEPT
               !.ev = Ev("generateAudio", 0, 0, FALSE, FALSE, 0)])

\* The decode of the exercise's audio resolves or rejects.
ListeningDecoded(ok) ==
  /\ micro = <<>>
  /\ generatePc = "decode"
  /\ Commit([GenerateDecoded(St, ok) EXCEPT
               !.ev = Ev("generateDecoded", 0, 0, FALSE, FALSE, 0)])

\* The Play Audio / Stop button: shown in listening mode with an exercise,
\* disabled without a buffer.
ToggleListeningAudio ==
  /\ micro = <<>> /\ ~unmounted
  /\ mode = "LISTENING"
  /\ exercise /\ listeningAudioBuffer
  /\ isListeningAudioPlaying \/ nPlays < MaxPlays
  /\ Commit([HandleToggleListeningAudio(St) EXCEPT
               !.ev = Ev("toggleListening", 0, 0, FALSE, FALSE, 0)])

\* The listening source has played to its end or has been stopped, on a
\* context that runs: its ended listener runs.
ListeningSourceEnded ==
  /\ micro = <<>>
  /\ listeningSource.st # "none"
  /\ listeningSource.ctx = nOutputCtx /\ outputCtx = "open"
  /\ Commit([ListeningEnded(St) EXCEPT
               !.ev = Ev("listeningEnded", 0, 0, FALSE, FALSE, 0)])

\* A listening source that the ref holds no more has been stopped, or has
\* played to its end, on a context that runs: its ended listener runs.
UnheldSourceEnded ==
  /\ micro = <<>>
  /\ nOutputCtx > 0 /\ outputCtx = "open"
  /\ unheldSources[nOutputCtx] > 0
  /\ Commit([UnheldEnded(St, nOutputCtx) EXCEPT
               !.ev = Ev("unheldEnded", 0, 0, FALSE, FALSE, 0)])

\* getUserMedia of startSession call i resolves.
MicGranted(i) ==
  /\ micro = <<>>
  /\ startPc[i] = "awaitMic"
  /\ Commit([StartSessionConnect(St, i) EXCEPT
               !.ev = Ev("connect", i, 0, FALSE, FALSE, 0)])

\* getUserMedia of startSession call i rejects.
MicDenied(i) ==
  /\ micro = <<>>
  /\ startPc[i] = "awaitMic"
  /\ Commit([StartSessionCatch(St, i) EXCEPT
               !.ev = Ev("catch", i, 0, FALSE, FALSE, 0)])

\* The remote side acknowledges session i: onopen runs, then the connect
\* promise resolves.
Open(i) ==
  /\ micro = <<>>
  /\ session[i] = "connecting"
  /\ LET S1 == [St EXCEPT !.session = [@ EXCEPT ![i] = "open"],
                          !.opened = @ \cup {i}]
     IN  Commit([ResolvePromise(OnOpen(S1, i), i) EXCEPT
                   !.ev = Ev("onopen", i, 0, FALSE, FALSE, 0)])

\* A transport error on session i: onerror runs.  When the session was still
\* connecting, the connect promise either rejects or is never settled.
TransportError(i, rejects) ==
  /\ micro = <<>>
  /\ session[i] \in Live
  /\ CanAwait(St)
  /\ rejects => session[i] = "connecting"
  /\ LET S1 == OnError([St EXCEPT !.session = [@ EXCEPT ![i] = "errored"]], i)
         S2 == IF rejects THEN RejectPromise(S1, i) ELSE S1
     IN  Commit([S2 EXCEPT
                   !.ev = Ev("onerror", i, 0, FALSE, sessionPromiseRef = 0,
                             IF sessionPromiseRef = 0 THEN i ELSE 0)])

\* The close event of session i: after a remote close, after session.close()
\* or after an error.  onclose runs.
SessionClosed(i) ==
  /\ micro = <<>>
  /\ session[i] \in {"open", "closing", "errored"}
  /\ Commit([OnClose([St EXCEPT !.session = [@ EXCEPT ![i] = "closed"]])
               EXCEPT !.ev = Ev("onclose", i, 0, FALSE, FALSE, 0)])

\* The script processor of session i delivers a block: it is connected and
\* its input context is running.
AudioProcess(i) ==
  /\ micro = <<>>
  /\ processor[i] = "connected"
  /\ inputCtxCloses[i] = 0
  /\ nFrames < MaxFrames
  /\ CanAwait(St)
  /\ Commit([OnAudioProcess(St) EXCEPT
               !.ev = Ev("onaudioprocess", i, 0, FALSE, FALSE, 0)])

\* The first microtask runs.
Microtask ==
  /\ micro # <<>>
  /\ Commit([RunMicrotask(St) EXCEPT
               !.ev = Ev(Head(micro)[1], Head(micro)[2], 0, FALSE,
                         Head(micro)[1] = "stop",
                         IF Head(micro)[1] = "stop" THEN Head(micro)[3]
                         ELSE 0)])

\* Session s delivers message m.
Message(s, m, maxChunks) ==
  /\ micro = <<>>
  /\ session[s] = "open"
  /\ m.audio # "none" => Len(chunks) < maxChunks
  /\ Commit([OnMessage(St, s, m) EXCEPT
               !.ev = Ev("onmessage", s,
                         IF m.audio # "none" THEN Len(chunks) + 1 ELSE 0,
                         m.audio = "none" /\ m.interrupted, FALSE, 0),
               !.heard = [@ EXCEPT !.last = m]])

\* Session s delivers a message of transcript fragments.
TextMessage(s, m, maxFrags) ==
  /\ heard.n + Len(m.input) + Len(m.output) <= maxFrags
  /\ Message(s, m, 0)

\* Session s delivers a message that combines several events.
ComboMessage(s, m) ==
  /\ heard.n + Len(m.input) + Len(m.output) <= ComboFrags
  /\ Message(s, m, ComboChunks)

\* The decode of chunk k resolves.  decodeAudioData is imported from
\* ./utils/audio; the specification (section 5) gives its timing: the decode
\* is asynchronous, several decodes may be in flight at once and they may
\* complete in any order, so each completion is a task of its own.
DecodeDone(k) ==
  /\ micro = <<>>
  /\ chunks[k].st = "decoding" /\ chunks[k].ok
  /\ Commit([DecodeResolved(St, k) EXCEPT
               !.ev = Ev("decoded", chunks[k].sess, k, chunks[k].intr, FALSE, 0)])

\* The decode of chunk k fails: a malformed chunk is a decode error
\* (specification, section 4.1).
DecodeFail(k) ==
  /\ micro = <<>>
  /\ chunks[k].st = "decoding" /\ ~chunks[k].ok
  /\ Commit([DecodeRejected(St, k) EXCEPT
               !.ev = Ev("decodeFailed", chunks[k].sess, k, FALSE, FALSE, 0)])

\* Source k has played to its end: its ended listener runs.
Ended(k) ==
  /\ micro = <<>>
  /\ chunks[k].st = "playing"
  /\ CtxTime(St, chunks[k].ctx) >= EndTime(chunks[k])
  /\ Commit([OnEnded(St, k) EXCEPT
               !.ev = Ev("ended", chunks[k].sess, k, FALSE, FALSE, 0)])

\* The output clock advances while the output context runs.
Tick(maxClock) ==
  /\ micro = <<>>
  /\ outputCtx = "open"
  /\ clock < maxClock
  /\ Commit([St EXCEPT !.clock = @ + 1,
                       !.ev = Ev("tick", 0, 0, FALSE, FALSE, 0)])

\* --------------------------------------------------------- specifications
\* The whole App: the conversation and the listening exercise.
Next ==
  \/ StartClick(AppStarts)
  \/ StopClick
  \/ TopicChange
  \/ ModeChange
  \/ Unmount
  \/ GenerateClick
  \/ \E ok \in BOOLEAN : TextResponse(ok)
  \/ \E ok \in BOOLEAN : AudioResponse(ok)
  \/ \E ok \in BOOLEAN : ListeningDecoded(ok)
  \/ ToggleListeningAudio
  \/ ListeningSourceEnded
  \/ UnheldSourceEnded
  \/ \E i \in Ids : MicGranted(i)
  \/ \E i \in Ids : MicDenied(i)
  \/ \E i \in Ids : Open(i)
  \/ \E i \in Ids, r \in BOOLEAN : TransportError(i, r)
  \/ \E i \in Ids : SessionClosed(i)
  \/ \E i \in Ids : AudioProcess(i)
  \/ Microtask
  \/ \E s \in Ids, m \in LifeMsgs : Message(s, m, MaxChunks)
  \/ \E k \in DOMAIN chunks : DecodeDone(k)
  \/ \E k \in DOMAIN chunks : Ended(k)
  \/ Tick(MaxClock)

Spec == Init /\ [][Next]_vars

\* The session lifecycle with startSession calls that overlap, and a little
\* audio; no exercise is generated.
NextLife ==
  \/ StartClick(MaxStarts)
  \/ StopClick
  \/ TopicChange
  \/ ModeChange
  \/ Unmount
  \/ \E i \in Ids : MicGranted(i)
  \/ \E i \in Ids : MicDenied(i)
  \/ \E i \in Ids : Open(i)
  \/ \E i \in Ids, r \in BOOLEAN : TransportError(i, r)
  \/ \E i \in Ids : SessionClosed(i)
  \/ \E i \in Ids : AudioProcess(i)
  \/ Microtask
  \/ \E s \in Ids, m \in LifeMsgs : Message(s, m, MaxChunks)
  \/ \E k \in DOMAIN chunks : DecodeDone(k)
  \/ \E k \in DOMAIN chunks : Ended(k)
  \/ Tick(MaxClock)

SpecLife == Init /\ [][NextLife]_vars

\* One session that stays open, and the audio it plays.
NextPlay ==
  \/ StartClick(PlayStarts)
  \/ \E i \in Ids : MicGranted(i)
  \/ \E i \in Ids : Open(i)
  \/ \E s \in Ids, m \in PlayMsgs : Message(s, m, PlayChunks)
  \/ \E k \in DOMAIN chunks : DecodeDone(k)
  \/ \E k \in DOMAIN chunks : DecodeFail(k)
  \/ \E k \in DOMAIN chunks : Ended(k)
  \/ Tick(PlayClock)

SpecPlay == Init /\ [][NextPlay]_vars

\* One session that stays open and is never interrupted: the chunks arrive
\* and their decodes resolve in any order.
NextOrder ==
  \/ StartClick(PlayStarts)
  \/ \E i \in Ids : MicGranted(i)
  \/ \E i \in Ids : Open(i)
  \/ \E s \in Ids, m \in OrderMsgs : Message(s, m, OrderChunks)
  \/ \E k \in DOMAIN chunks : DecodeDone(k)
  \/ Tick(PlayClock)

SpecOrder == Init /\ [][NextOrder]_vars

\* One session that stays open, and the transcripts it delivers.
NextTurn ==
  \/ StartClick(PlayStarts)
  \/ \E i \in Ids : MicGranted(i)
  \/ \E i \in Ids : Open(i)
  \/ \E s \in Ids, m \in TurnMsgs : TextMessage(s, m, TurnFrags)

SpecTurn == Init /\ [][NextTurn]_vars

\* One session that stays open, and the messages that combine events.
NextCombo ==
  \/ StartClick(PlayStarts)
  \/ \E i \in Ids : MicGranted(i)
  \/ \E i \in Ids : Open(i)
  \/ \E s \in Ids, m \in ComboMsgs : ComboMessage(s, m)
  \/ \E k \in DOMAIN chunks : DecodeDone(k)

SpecCombo == Init /\ [][NextCombo]_vars

\* Sessions that are started and stopped one after the other, and the
\* transcripts they deliver.
NextLeak ==
  \/ StartClick(MaxStarts)
  \/ StopClick
  \/ \E i \in Ids : MicGranted(i)
  \/ \E i \in Ids : Open(i)
  \/ \E i \in Ids : SessionClosed(i)
  \/ Microtask
  \/ \E s \in Ids, m \in LeakMsgs : TextMessage(s, m, LeakFrags)

SpecLeak == Init /\ [][NextLeak]_vars

\* One session that stays open, its audio and its interruptions; every
\* decode settles in the end, it resolves or it fails.
NextHonour ==
  \/ StartClick(PlayStarts)
  \/ \E i \in Ids : MicGranted(i)
  \/ \E i \in Ids : Open(i)
  \/ \E s \in Ids, m \in HonourMsgs : Message(s, m, PlayChunks)
  \/ \E k \in DOMAIN chunks : DecodeDone(k)
  \/ \E k \in DOMAIN chunks : DecodeFail(k)
  \/ \E k \in DOMAIN chunks : Ended(k)
  \/ Tick(PlayClock)

SpecHonour ==
  /\ Init /\ [][NextHonour]_vars
  /\ WF_vars(\E k \in DOMAIN chunks : DecodeDone(k))
  /\ WF_vars(\E k \in DOMAIN chunks : DecodeFail(k))

\* A captured block goes through createPcmBlob and is decoded again.
RoundTrip ==
  /\ decoded = <<>>
  /\ decoded' = DecodeAudioData(Decode(CreatePcmBlob(frame)))
  /\ UNCHANGED <<appVars, frame, parse>>

InitCodec ==
  InitApp /\ apiKey /\ frame \in CodecFrames /\ decoded = <<>>
    /\ parse = Parse(<<>>)

\* The tutor's side of a turnComplete on an accumulated output: trimmed,
\* and when it is not empty the entries it adds.
FinalizeOutput ==
  /\ ~parse.done
  /\ parse' = [parse EXCEPT
                 !.done = TRUE,
                 !.entries = IF Trim(parse.output) # <<>>
                             THEN TutorEntries(Trim(parse.output)) ELSE <<>>]
  /\ UNCHANGED <<appVars, frame, decoded>>

InitSplit ==
  InitApp /\ apiKey /\ frame = <<>> /\ decoded = <<>>
    /\ parse \in { Parse(o) : o \in SplitOutputs }

SpecSplit == InitSplit /\ [][FinalizeOutput]_vars

SpecCodec == InitCodec /\ [][RoundTrip]_vars

\* ------------------------------------------------------------- properties
\* The durations of chunks 1..n, added up.
RECURSIVE SumDur(_)
SumDur(n) == IF n = 0 THEN 0 ELSE chunks[n].dur + SumDur(n - 1)

\* No interruption, no teardown and no malformed chunk so far, one session.
Uninterrupted ==
  /\ ~resetSeen
  /\ \A k \in DOMAIN chunks : chunks[k].ok /\ ~chunks[k].intr

\* No chunk arrived after the chunks before it had played out.
NoUnderrun ==
  \A k \in DOMAIN chunks : chunks[k].rcv <= chunks[1].eff + SumDur(k - 1)

\* C1: gapless playback.  With no interruption and no underrun, every buffer
\* that has been started starts where the buffers received before it end:
\* at the start of the first plus their durations; and once all are started
\* nextStartTime is the end of the last.
C1_GaplessPlayback ==
  (Uninterrupted /\ NoUnderrun) =>
    /\ \A k \in DOMAIN chunks :
         chunks[k].st \in Started =>
           chunks[k].eff = chunks[1].eff + SumDur(k - 1)
    /\ (chunks # <<>> /\ \A k \in DOMAIN chunks : chunks[k].st \in Started)
         => qNst[curQueue] = chunks[1].eff + SumDur(Len(chunks))

\* C2: playback order is arrival order.  Of two started buffers, the one
\* whose message arrived first has the start time that is not the later.
C2_ArrivalOrder ==
  \A a, b \in DOMAIN chunks :
    (a < b /\ chunks[a].st \in Started /\ chunks[b].st \in Started)
      => chunks[a].eff <= chunks[b].eff

\* C3: cancellation resets the queue.  Right after the interruption handling
\* the active set is empty and nextStartTime is 0, and the next source that
\* is started after it starts at the time its output clock shows then, not
\* at a later time left from what was scheduled before the interruption.
C3_CancelResets ==
  [][/\ ev'.cancel => (qSources'[curQueue'] = {} /\ qNst'[curQueue'] = 0)
     /\ (ev'.op = "decoded" /\ justCancelled)
          => chunks'[ev'.k].eff <= CtxTime(St, chunks[ev'.k].ctx)]_vars

\* C4: stale chunks are dropped.  A chunk whose decode was in flight when an
\* interruption was handled is never started and never joins an active set.
C4_StaleDropped ==
  \A k \in DOMAIN chunks :
    chunks[k].cancelled =>
      /\ chunks[k].st \notin Started
      /\ \A q \in DOMAIN qSources : k \notin qSources[q]

\* What stopSession leaves behind.
Released(S) ==
  /\ S.streamRef = 0
  /\ S.audioProcessorRef = 0
  /\ S.qSources[S.curQueue] = {}
  /\ S.qNst[S.curQueue] = 0
  /\ S.inputCtxRef = 0
  /\ S.sessionPromiseRef = 0
  /\ S.status = "INACTIVE"

\* The Open action on a record: the session opens, onopen, the promise.
OpenSession(S, i) ==
  ResolvePromise(OnOpen([S EXCEPT !.session = [@ EXCEPT ![i] = "open"],
                                  !.opened = @ \cup {i}], i), i)

\* C5: idempotent teardown.  In every state between two tasks, stopSession
\* called twice (the second call after the first has ended, or right after
\* the first call returned) leaves the state that one call leaves, and that
\* state has every reference null, the queue empty and the status INACTIVE.
\* When the session promise is still pending the calls end once it settles,
\* and they are compared there.  The same for cleanupSessionResources.
C5_IdempotentTeardown ==
  micro = <<>> =>
    LET p == sessionPromiseRef
        c1 == CleanupSessionResources(St)
        one == StopSession(St, 0)
        two == StopSession(one, 0)
    IN  /\ CleanupSessionResources(c1) = c1
        /\ c1.streamRef = 0 /\ c1.audioProcessorRef = 0 /\ c1.inputCtxRef = 0
        /\ c1.qSources[c1.curQueue] = {} /\ c1.qNst[c1.curQueue] = 0
        /\ IF p # 0 /\ promise[p] = "pending"
           THEN /\ Drain(OpenSession(two, p)) = Drain(OpenSession(one, p))
                /\ Released(Drain(OpenSession(one, p)))
                /\ Drain(RejectPromise(two, p)) = Drain(RejectPromise(one, p))
                /\ Released(Drain(RejectPromise(one, p)))
           ELSE /\ Drain(two) = Drain(one)
                /\ Drain(StopSession(Drain(one), 0)) = Drain(one)
                /\ Released(Drain(one))

\* A stopSession call has just ended after it closed an open session and
\* released its stream, its processor and its input context: the state in
\* which the second call of C5 is made.
C5_Witness ==
  /\ ev.stop
  /\ \E i \in Ids :
       /\ session[i] = "closing"
       /\ streamStops[i] = 1
       /\ inputCtxCloses[i] = 1
       /\ processor[i] = "disconnected"

\* C6: exactly-once release.  No stream and no input context is released
\* twice, and when a stopSession call has ended every stream and every input
\* context acquired so far has been released.
C6_ExactlyOnceRelease ==
  /\ \A i \in Ids : streamStops[i] <= 1 /\ inputCtxCloses[i] <= 1
  /\ ev.stop =>
       \A i \in Ids :
         startPc[i] = "granted" =>
           (streamStops[i] = 1 /\ inputCtxCloses[i] = 1)

\* C7: session stop releases the output device.  When a stopSession call
\* has ended the queue is cancelled and the output context, if there is one,
\* is closed.
C7_StopClosesOutput ==
  ev.stop =>
    /\ qSources[curQueue] = {} /\ qNst[curQueue] = 0
    /\ outputCtx # "open"

\* C8: capture starts only after open.  A script processor exists only for
\* a session whose onopen has fired, and every block sent was sent to a
\* session whose onopen had fired.
C8_CaptureAfterOpen ==
  /\ \A i \in Ids : processor[i] # "none" => i \in opened
  /\ \A c \in sendCalls : c[1] \in opened /\ c[2] \notin {"none", "connecting"}

\* A block was captured and sent to an open session.
C8_Witness == \E c \in sendCalls : c[2] = "open"

\* C9: at most one live session.
C9_OneLiveSession == Cardinality({i \in Ids : session[i] \in Live}) <= 1

\* What the teardown after an error of session s must leave.
TornDown(s) ==
  /\ session[s] \notin Live
  /\ startPc[s] = "granted" => (streamStops[s] >= 1 /\ inputCtxCloses[s] >= 1)
  /\ processor[s] # "connected"
  /\ qSources[curQueue] = {} /\ qNst[curQueue] = 0

\* C10: a transport error is fatal and triggers the full teardown.  When the
\* stopSession call made by onerror of session s has ended, session s is not
\* live, its stream, its processor and its input context are released and
\* playback is cancelled.
C10_ErrorTeardown == (ev.stop /\ ev.err # 0) => TornDown(ev.err)

\* C11: release precedes reporting.  When the alert of a session-level
\* failure (microphone denied, transport error) is shown, the microphone
\* stream, the input context and the capture processor have been released.
C11_ReleaseBeforeAlert ==
  alert.kind \in {"microphone", "transport"} =>
    (alert.stream = 0 /\ alert.input = 0 /\ alert.proc = 0)

\* C12: a microphone denial is fatal to the start.  A startSession call whose
\* getUserMedia was rejected never has a session, a connect promise or a
\* capture processor, and when its catch block has run the refs hold no
\* stream, no input context and no processor and the status is INACTIVE.
C12_MicDenialFatal ==
  /\ \A i \in Ids :
       startPc[i] = "denied" =>
         (session[i] = "none" /\ promise[i] = "none" /\ processor[i] = "none")
  /\ ev.op = "catch" =>
       /\ streamRef = 0 /\ inputCtxRef = 0 /\ audioProcessorRef = 0
       /\ status = "INACTIVE"

\* The microphone was denied to a startSession call that had set
\* CONNECTING, and its catch block has run.
C12_Witness ==
  /\ ev.op = "catch" /\ startPc[ev.s] = "denied"
  /\ alert.kind = "microphone"
  /\ status = "INACTIVE"

\* C13: a decode error is contained.  The step in which the decode of a
\* chunk fails starts no source, leaves nextStartTime, the active sets and
\* every other chunk as they were, and leaves the status, the microphone
\* stream, the session reference and the sessions as they were; a failed
\* chunk is in no active set.
C13_DecodeErrorContained ==
  [][ev'.op = "decodeFailed" =>
       /\ chunks'[ev'.k].st = "failed"
       /\ \A j \in DOMAIN chunks : j # ev'.k => chunks'[j] = chunks[j]
       /\ \A q \in DOMAIN qSources' : ev'.k \notin qSources'[q]
       /\ qNst' = qNst /\ qSources' = qSources
       /\ status' = status /\ streamRef' = streamRef
       /\ audioProcessorRef' = audioProcessorRef
       /\ sessionPromiseRef' = sessionPromiseRef /\ session' = session
    ]_vars

\* The decode of a chunk failed, the session went on, and a
\* chunk that arrived after the failed one is playing in the same session.
C13_Witness ==
  \E j, k \in DOMAIN chunks :
    /\ j < k
    /\ chunks[j].st = "failed"
    /\ chunks[k].st = "playing"
    /\ session[chunks[k].sess] = "open" /\ status = "ACTIVE"

\* C14: the turn accumulation boundary.  When a turnComplete has been
\* handled both accumulators are empty, and when the input fragments received
\* since the turnComplete before it, joined in arrival order and trimmed,
\* are not empty, the first entry the turn added is the user's, with that
\* text.
C14_TurnAccumulation ==
  heard.done =>
    LET text == Trim(Flat(heard.wasIn)) IN
    /\ currentInput = <<>> /\ currentOutput = <<>>
    /\ text # <<>> =>
         /\ Len(transcript) > heard.len
         /\ transcript[heard.len + 1].speaker = "You"
         /\ transcript[heard.len + 1].text = text

\* The fragments "a" and "b" arrived in that order after a tab and the
\* turnComplete added the user entry "ab".
C14_Witness ==
  /\ heard.done
  /\ heard.wasIn = << <<"\t">>, <<"a">>, <<"b">> >>
  /\ transcript[heard.len + 1].text = <<"a", "b">>

\* An entry with no text and no correction.
EmptyEntry(e) == e.text = <<>> /\ e.correction \in {Undefined, <<>>}

\* C15: no empty entries are surfaced.  No step leaves an empty entry in the
\* transcript; a turnComplete adds no user entry when the trimmed input is
\* empty and no tutor entry when the trimmed output is empty, and leaves the
\* transcript as it was when both are.
C15_NoEmptyEntries ==
  [][/\ \A n \in DOMAIN transcript' : ~EmptyEntry(transcript'[n])
     /\ heard'.done =>
          LET new == SubSeq(transcript', Len(transcript) + 1, Len(transcript'))
              noIn == Trim(Flat(heard'.wasIn)) = <<>>
              noOut == Trim(Flat(heard'.wasOut)) = <<>>
          IN  /\ noIn => \A n \in DOMAIN new : new[n].speaker # "You"
              /\ noOut => \A n \in DOMAIN new : new[n].speaker # "Tutor"
              /\ (noIn /\ noOut) => transcript' = transcript
    ]_vars

\* A turnComplete found a tab as input and a correction prefix with a
\* separator and nothing else as output, and added no entry.
C15_Witness ==
  /\ heard.done
  /\ heard.wasIn = << <<"\t">> >>
  /\ heard.wasOut = << CorrectionPrefix, Separator >>
  /\ Len(transcript) = heard.len

\* C16: sends to a session that is not open are dropped.  A block captured
\* while the session sessionPromiseRef refers to was not open (its promise
\* pending, or the session closing, closed or failed) is never handed to an
\* open session, then or later.
C16_SendsDropped ==
  \A c \in sendCalls : c[3] = 1 => c[2] # "open"

\* The moves of the lifecycle state machine: INACTIVE, CONNECTING, ACTIVE,
\* INACTIVE in that order, ERROR from CONNECTING or ACTIVE; with them a start
\* that is given up (CONNECTING to INACTIVE) and the ways out of ERROR (the
\* teardown to INACTIVE, the user's restart to CONNECTING).
StatusMoves ==
  { <<"INACTIVE", "CONNECTING">>, <<"CONNECTING", "ACTIVE">>,
    <<"ACTIVE", "INACTIVE">>, <<"CONNECTING", "ERROR">>, <<"ACTIVE", "ERROR">>,
    <<"CONNECTING", "INACTIVE">>, <<"ERROR", "INACTIVE">>,
    <<"ERROR", "CONNECTING">> }

\* C17: the status follows the lifecycle state machine.  Every step that
\* changes the status makes one of its moves: ACTIVE and ERROR are never
\* entered from INACTIVE.
C17_StatusMachine ==
  [][status' # status => <<status, status'>> \in StatusMoves]_vars

\* The distance between two samples.
Dist(a, b) == IF a >= b THEN a - b ELSE b - a

\* C18: the codec round trip.  A block that went through createPcmBlob and
\* was decoded has as many samples as before and each within 1/32768 of
\* what it was; silence stays silence.
C18_CodecRoundTrip ==
  decoded # <<>> =>
    /\ Len(decoded) = Len(frame)
    /\ \A i \in DOMAIN frame :
         Dist(decoded[i], frame[i]) <= SampleUnits \div SampleScale

\* C19: nextStartTime does not go down while the turn is uninterrupted.  A
\* step that schedules a decoded chunk and resets nothing leaves
\* nextStartTime at least what it was before the step, whatever the order
\* in which the decodes complete.
C19_NstMonotone ==
  [][(ev'.op = "decoded" /\ ~ev'.cancel)
       => qNst'[curQueue'] >= qNst[curQueue]]_vars

\* C20: the start-time rule.  A buffer that is started is started at the
\* larger of nextStartTime and the output clock, both as they are at the
\* moment it is scheduled: never before the clock, and exactly at the clock
\* when the clock is past nextStartTime.
C20_StartTimeRule ==
  [][ev'.op = "decoded"
       => chunks'[ev'.k].eff =
            Max(qNst[curQueue], CtxTime(St, chunks[ev'.k].ctx))]_vars

\* C21: an interruption never throws.  source.stop() throws only on a source
\* that was never started: every source in an active set has been started,
\* so the stop() calls of the interruption handling cannot throw, whether
\* the set is empty or a source in it has played to its end; and when the
\* handling has run the active set is empty.
C21_InterruptNeverThrows ==
  /\ \A q \in DOMAIN qSources :
       \A k \in qSources[q] : chunks[k].st \in Started
  /\ ev.cancel => qSources[curQueue] = {}

\* The interruption handling has just stopped a source that had played to
\* its end and was still in the active set.
C21_Witness ==
  /\ ev.cancel
  /\ qSources[curQueue] = {}
  /\ \E k \in DOMAIN chunks :
       /\ chunks[k].st = "stopped"
       /\ chunks[k].stopAt = clock
       /\ EndTime(chunks[k]) <= clock

\* C22: the events of one message are dispatched in a fixed order: input
\* fragment, output fragment, turnComplete, audio chunk, interruption.  A
\* message with a turnComplete finalizes the accumulators with its own
\* fragments appended and leaves both empty; the interruption of a message
\* with audio is not handled when the message arrives but after its chunk
\* has been started, and stops that chunk.
C22_DispatchOrder ==
  [][LET m == heard'.last
         finalInput == Trim(currentInput \o Flat(m.input))
         finalOutput == Trim(currentOutput \o Flat(m.output))
         new == SubSeq(transcript', Len(transcript) + 1, Len(transcript'))
     IN  /\ m.turnComplete =>
              /\ currentInput' = <<>> /\ currentOutput' = <<>>
              /\ finalInput # <<>> =>
                   /\ new # <<>>
                   /\ new[1].speaker = "You" /\ new[1].text = finalInput
              /\ (finalOutput # <<>>
                    /\ ~StartsWith(finalOutput, CorrectionPrefix)) =>
                   /\ new # <<>>
                   /\ new[Len(new)].speaker = "Tutor"
                   /\ new[Len(new)].text = finalOutput
         /\ (m.audio # "none" /\ m.interrupted) =>
              /\ chunks'[Len(chunks')].st = "decoding"
              /\ qSources' = qSources /\ qNst' = qNst
         /\ (ev'.op = "decoded" /\ ev'.cancel) =>
              /\ chunks'[ev'.k].st = "stopped"
              /\ qSources'[curQueue'] = {} /\ qNst'[curQueue'] = 0
    ]_vars

\* A message with an input fragment, an output fragment, a turnComplete, an
\* audio chunk and an interruption has been delivered after a first input
\* fragment: the turn it finalized holds both input fragments and its own
\* output fragment.
C22_Witness ==
  /\ heard.last = Msg(<< <<"a">> >>, << <<"x">> >>, TRUE, "ok", 1, TRUE)
  /\ heard.wasIn = << <<"a">>, <<"a">> >>
  /\ Len(transcript) = 2
  /\ transcript[1].text = <<"a", "a">>
  /\ transcript[2].text = <<"x">>
  /\ currentInput = <<>> /\ currentOutput = <<>>

\* The text s holds the text sep.
Contains(s, sep) ==
  \E i \in 1..(Len(s) - Len(sep) + 1) : SubSeq(s, i, i + Len(sep) - 1) = sep

\* C23: the correction/reply split preserves the finalized output.  When the
\* trimmed output starts with the prefix and holds a separator, the tutor
\* entry's correction is the trimmed text between the prefix and the first
\* separator and its text all that follows the first separator, trimmed,
\* later separators kept; any other output that is not empty makes one
\* entry with the whole trimmed output as text and no correction.
C23_CorrectionSplit ==
  parse.done =>
    LET f == Trim(parse.output) IN
    IF StartsWith(f, CorrectionPrefix) /\ Contains(f, Separator)
    THEN \E n \in 1..(Len(f) - 1) :
           /\ SubSeq(f, n, n + 1) = Separator
           /\ ~Contains(SubSeq(f, 1, n), Separator)
           /\ LET corr == Trim(SubSeq(f, Len(CorrectionPrefix) + 1, n - 1))
                  text == Trim(SubSeq(f, n + 2, Len(f)))
              IN  (text # <<>> \/ corr # <<>>) =>
                    parse.entries = << [speaker |-> "Tutor", text |-> text,
                                        correction |-> corr] >>
    ELSE f # <<>> =>
           parse.entries = << [speaker |-> "Tutor", text |-> f,
                               correction |-> Undefined] >>

\* An output with the prefix, a tab and two separators was finalized: the
\* entry has the empty correction the trimmed tab leaves and a text that
\* still holds the second separator.
C23_Witness ==
  /\ parse.done
  /\ parse.output =
       CorrectionPrefix \o <<"\t">> \o Separator \o <<"x">> \o Separator
  /\ Len(parse.entries) = 1
  /\ parse.entries[1].correction = <<>>
  /\ parse.entries[1].text = <<"x">> \o Separator

\* C24: stop is final.  From the end of a stopSession call to the next call
\* of startSession the status is INACTIVE, no microphone stream is held and
\* no session is connecting or open.
C24_StopIsFinal ==
  stopped =>
    /\ status = "INACTIVE"
    /\ streamRef = 0
    /\ \A i \in Ids : session[i] \notin Live

\* C25: no playback after stop.  A chunk whose decode was in flight when
\* cleanupSessionResources ran for its queue is never started on the output
\* device: on an output context that runs.
C25_NoPlaybackAfterStop ==
  \A k \in DOMAIN chunks :
    (chunks[k].torn /\ chunks[k].ctx = nOutputCtx /\ outputCtx = "open")
      => chunks[k].st \notin Started

\* C26: every playing source can be cancelled.  A source that has been
\* started, has not been stopped and has time left to play is in the active
\* set of the queue object audioPlaybackQueueRef holds.
C26_PlayingIsCancellable ==
  \A k \in DOMAIN chunks :
    (chunks[k].st = "playing"
       /\ CtxTime(St, chunks[k].ctx) < EndTime(chunks[k]))
      => k \in qSources[curQueue]

\* C27: an ACTIVE status implies a working capture path.  While the status
\* is ACTIVE a microphone stream is held whose tracks have not been stopped
\* and the session sessionPromiseRef refers to is open.
C27_ActiveCapturePath ==
  status = "ACTIVE" =>
    /\ streamRef # 0 /\ streamStops[streamRef] = 0
    /\ sessionPromiseRef # 0 /\ session[sessionPromiseRef] = "open"

\* C28: turns do not leak across sessions.  When a session becomes ACTIVE
\* both transcript accumulators are empty.
C28_NoLeakAcrossSessions ==
  ev.op = "onopen" => (currentInput = <<>> /\ currentOutput = <<>>)

\* C29: an interruption is always honoured.  When a message with an audio
\* chunk and the interrupted flag has been delivered, the handling of that
\* message gets to its interruption in the end, whether the decode is slow
\* or fails.  (An interruption with no audio is handled as it arrives.)
C29_InterruptionHonoured ==
  \A k \in 1..PlayChunks :
    (Len(chunks) >= k /\ chunks[k].intr)
      ~> (Len(chunks) >= k /\ chunks[k].honoured)

====
